---- MODULE Spec2Model ----
(***************************************************************************)
(* Model of the rtl-sdr acquisition pipeline of rtlamr (recv-sdr.go):      *)
(* the io.Pipe bridge between the ReadAsync callback and Receiver.Run,     *)
(* startup (HandleFlags, NewReceiver), the acquisition loop, single mode,  *)
(* and main's deferred shutdown.                                           *)
(*                                                                         *)
(* Two execution contexts are modelled: the main goroutine (variable pc)   *)
(* and the ReadAsync goroutine that invokes rtlsdrCb (variables producer   *)
(* and cb).  Sample bytes are numbered by their position in the hardware   *)
(* stream modulo ByteMod, so that a dropped, duplicated or reordered byte  *)
(* is visible in the block handed to the decoder.                          *)
(***************************************************************************)
EXTENDS Integers, Sequences, FiniteSets, TLC

\* ---- sizes -------------------------------------------------------------
\* rcvr.p.Cfg().BlockSize2, the length of block (scaled down).
BlockSize2 == 2
\* Largest chunk the driver hands to rtlsdrCb in one call.
MaxChunk == 3
\* Largest number of packets rcvr.p.Parse returns for one block.
MaxPkts == 2
\* Sample bytes carry their stream position modulo ByteMod, which exceeds
\* the most bytes that can be in flight (a full block, MaxChunk offered).
ByteMod == BlockSize2 + MaxChunk + 1
\* The archive length is counted in appended windows modulo ArchMod.
ArchMod == 3
\* Meter ids that decoded packets can carry.
IDs == {42, 43}

VARIABLES
    pc,          \* position of the main goroutine
    single,      \* *single
    sampleOn,    \* *sampleFilename != os.DevNull
    fc,          \* rcvr.fc, the filter chain built by NewReceiver
    flagSet,     \* the filter flags given on the command line
    ids0,        \* the identifier set as configured by -filterid
    boot,        \* startup steps completed so far, in order
    meterID,     \* meterID.UintMap, the identifier set
    sigint,      \* the sigint channel (capacity 1) holds a signal
    tLimit,      \* the tLimit channel: "none", "armed", "fired", "drained"
    wbuf,        \* bytes of the pending out.Write not yet read
    cb,          \* rtlsdrCb: "idle" or "writing" (inside out.Write)
    producer,    \* the ReadAsync goroutine: "running", "lost", "stopped"
    inClosed,    \* in.Close() has been called
    outClosed,   \* out.Close() has been called
    block,       \* the bytes io.ReadFull has placed in block so far
    pkts,        \* packets of the current block not yet visited by the range loop
    pktFound,    \* pktFound
    sampleLen,   \* length of sampleFile in appended windows (mod ArchMod)
    cancelReq,   \* rcvr.CancelAsync() has been called
    exitCode,    \* -1 while the process runs, else the os.Exit status
    fatalAt,     \* which log.Fatal ended the process, "" if none
    returnedBy,  \* which return statement left the loop, "" if none
    nextByte,    \* stream position (mod ByteMod) of the next byte to enter the pipe
    blockStart,  \* stream position (mod ByteMod) of the first byte of the next block
    iterMeterID, \* meterID as it was when the current block was decoded
    iterPkts,    \* what Parse returned for the block in the range loop, else <<>>
    blkLog,      \* log records encoded for the current block
    blkAppends,  \* sampleFile.Write calls that succeeded for the current block
    ops          \* shutdown operations performed so far, in order

vars == <<pc, single, sampleOn, fc, flagSet, ids0, boot, iterPkts, meterID, sigint, tLimit, wbuf, cb, producer,
          inClosed, outClosed, block, pkts, pktFound, sampleLen, cancelReq,
          exitCode, fatalAt, returnedBy, nextByte, blockStart, iterMeterID,
          blkLog, blkAppends, ops>>

\* ---- helpers -----------------------------------------------------------
Min(a, b) == IF a < b THEN a ELSE b

\* A decoded packet: its meter id, and the joint verdict of the registered
\* filters other than the identifier filter (type, unique) on it.
Pkt == [id : IDs, others : BOOLEAN]

RECURSIVE SeqsUpTo(_, _)
SeqsUpTo(S, n) ==
    IF n = 0 THEN {<<>>}
    ELSE LET shorter == SeqsUpTo(S, n - 1)
         IN  shorter \cup {Append(s, x) : s \in {t \in shorter : Len(t) = n - 1}, x \in S}

\* What rcvr.p.Parse(rcvr.p.Dec().Decode(block)) can return.
PktSeqs == SeqsUpTo(Pkt, MaxPkts)

\* The same, seen through a given chain: without a type or unique filter
\* in the chain there is no verdict to tell packets apart by.
Parsed(chain) ==
    {ps \in PktSeqs :
        (\A i \in DOMAIN chain : chain[i] = "meterID") =>
            \A k \in DOMAIN ps : ps[k].others}

\* The chunk the driver passes to rtlsdrCb: n consecutive stream bytes.
Chunk(from, n) == [i \in 1..n |-> (from + i - 1) % ByteMod]

\* Bytes [from, from+BlockSize2) of the stream.
StreamBlock(from) == Chunk(from, BlockSize2)

FirstN(s, n) == SubSeq(s, 1, n)
DropN(s, n) == SubSeq(s, n + 1, Len(s))


Range(s) == {s[i] : i \in DOMAIN s}

\* ---- filter chain ------------------------------------------------------
\* MeterIDFilter: member of the set, or the set is empty.
MeterIDFilter(m, pkt) == m = {} \/ pkt.id \in m

\* One registered filter applied to a packet.
Filter(name, pkt) ==
    CASE name = "meterID" -> MeterIDFilter(meterID, pkt)
      [] OTHER -> pkt.others

\* rcvr.fc.Match(pkt): every registered filter accepts.
Match(pkt) == \A i \in DOMAIN fc : Filter(fc[i], pkt)

\* The filter each filter flag registers.
FilterOf(flag) ==
    CASE flag = "unique" -> "unique"
      [] flag = "filterid" -> "meterID"
      [] flag = "filtertype" -> "meterType"

FilterFlags == {"filterid", "filtertype", "unique"}

\* Variant of VisitFlags: flags visited in the order of the switch cases.
VisitFlagsCaseOrder(flags) ==
    LET given(f) == f \in flags
        visited == SelectSeq(<<"unique", "filterid", "filtertype">>, given)
    IN  [i \in DOMAIN visited |-> FilterOf(visited[i])]

\* The chain flag.Visit builds in NewReceiver: flag.Visit calls the
\* function for the flags that were set, in lexicographical order of
\* their names, and each case appends its filter.
VisitFlags(flags) ==
    LET given(f) == f \in flags
        visited == SelectSeq(<<"filterid", "filtertype", "unique">>, given)
    IN  [i \in DOMAIN visited |-> FilterOf(visited[i])]

\* HandleFlags: single mode needs an identifier set.
ConfigOK(sgl, ids) == sgl => ids # {}

\* ---- main's deferred function -------------------------------------------
\* Variant of MainDefer: rcvr.Close() placed ahead of rcvr.CancelAsync().
MainDeferCloseFirst == <<"closeLog", "closeSample", "closeDev", "cancel", "exit0">>

\* The statements of the function deferred in main, in program order.
MainDefer == <<"closeLog", "closeSample", "cancel", "closeDev", "exit0">>

\* The statement that follows p in main's deferred function.
DeferNext(p) ==
    LET i == CHOOSE k \in DOMAIN MainDefer : MainDefer[k] = p
    IN  MainDefer[i + 1]

\* ---- startup ---------------------------------------------------------------
\* Variant of StartupOrder: main calls rcvr.NewReceiver() before HandleFlags().
StartupOrderFlagsLate ==
    <<"NewParser", "Open", "Visit", "SetCenterFreq", "SetSampleRate",
      "SetTunerGainMode", "ResetBuffer", "HandleFlags", "RunSetup">>

\* Variant of StartupOrder: Run starts ReadAsync before NewReceiver has
\* reset the device buffer.
StartupOrderAsyncEarly ==
    <<"HandleFlags", "NewParser", "Open", "Visit", "SetCenterFreq", "SetSampleRate",
      "SetTunerGainMode", "RunSetup", "ResetBuffer">>

\* The steps of main up to the loop, in program order: HandleFlags, the
\* statements of NewReceiver, and the set-up at the top of Run, which ends
\* with "go rcvr.ReadAsync".
StartupOrder ==
    <<"HandleFlags", "NewParser", "Open", "Visit", "SetCenterFreq", "SetSampleRate",
      "SetTunerGainMode", "ResetBuffer", "RunSetup">>

StartupPcs == {StartupOrder[i] : i \in DOMAIN StartupOrder}

\* The step that follows p at startup; the loop follows the last one.
StartNext(p) ==
    LET i == CHOOSE k \in DOMAIN StartupOrder : StartupOrder[k] = p
    IN  IF i = Len(StartupOrder) THEN "select" ELSE StartupOrder[i + 1]

\* ---- initial state: flags are parsed, main is about to call HandleFlags.
\*      tLimit = "armed" stands for a non-zero *timeLimit until Run starts
\*      the timer. ------------------------------------------------------------
Init ==
    /\ single \in BOOLEAN
    /\ sampleOn \in BOOLEAN
    /\ meterID \in SUBSET IDs
    /\ ids0 = meterID
    /\ flagSet \in SUBSET FilterFlags
    /\ "filterid" \in flagSet <=> meterID # {}
    /\ fc = <<>>
    /\ boot = <<>>
    /\ iterPkts = <<>>
    /\ tLimit \in {"none", "armed"}
    /\ pc = StartupOrder[1]
    /\ sigint = FALSE
    /\ wbuf = <<>>
    /\ cb = "idle"
    /\ producer = "off"
    /\ inClosed = FALSE
    /\ outClosed = FALSE
    /\ block = <<>>
    /\ pkts = <<>>
    /\ pktFound = FALSE
    /\ sampleLen = 0
    /\ cancelReq = FALSE
    /\ exitCode = -1
    /\ fatalAt = ""
    /\ returnedBy = ""
    /\ nextByte = 0
    /\ blockStart = 0
    /\ iterMeterID = meterID
    /\ blkLog = <<>>
    /\ blkAppends = 0
    /\ ops = <<>>

cfgVars == <<single, sampleOn, fc, flagSet, ids0, boot>>
sigVars == <<sigint, tLimit>>
pipeVars == <<wbuf, cb, inClosed, outClosed>>
prodVars == <<producer, nextByte>>
blkVars == <<pkts, pktFound, iterMeterID, iterPkts, blkLog, blkAppends>>
exitVars == <<exitCode, fatalAt>>

Running == exitCode = -1

\* Variant of Fatal: the error is only logged (log.Print), the run goes on.
FatalLogsOnly(where) ==
    /\ fatalAt' = where
    /\ UNCHANGED <<pc, exitCode>>

\* log.Fatal: os.Exit(1) at once, deferred functions do not run.
Fatal(where) ==
    /\ pc' = "exited"
    /\ exitCode' = 1
    /\ fatalAt' = where

\* ---- startup steps (main goroutine) ---------------------------------------
startVars == <<single, sampleOn, flagSet, ids0, meterID, sigVars, pipeVars, nextByte,
               block, blkVars, sampleLen, cancelReq, returnedBy, blockStart, ops>>

\* Step p completes and the next one is due, or p fails fatally.
StartStep(p, ok, fails) ==
    /\ Running /\ pc = p
    /\ \/ /\ ok
          /\ boot' = Append(boot, p)
          /\ pc' = StartNext(p)
          /\ UNCHANGED exitVars
       \/ /\ fails
          /\ Fatal(p)
          /\ UNCHANGED boot
    /\ UNCHANGED startVars

\* HandleFlags(): rejects single mode without an identifier set.
HandleFlags ==
    /\ StartStep("HandleFlags", ConfigOK(single, meterID), ~ConfigOK(single, meterID))
    /\ UNCHANGED <<fc, producer>>

\* parse.NewParser(...), log.Fatal on error.
NewParser ==
    /\ StartStep("NewParser", TRUE, TRUE)
    /\ UNCHANGED <<fc, producer>>

\* rtlsdr.Open(0), log.Fatal on error.
Open ==
    /\ StartStep("Open", TRUE, TRUE)
    /\ UNCHANGED <<fc, producer>>

\* flag.Visit(...): the filter chain is built.
Visit ==
    /\ StartStep("Visit", TRUE, FALSE)
    /\ fc' = VisitFlags(flagSet)
    /\ UNCHANGED producer

\* rcvr.SetCenterFreq(...), log.Fatal on error.
SetCenterFreq ==
    /\ StartStep("SetCenterFreq", TRUE, TRUE)
    /\ UNCHANGED <<fc, producer>>

\* rcvr.SetSampleRate(...), log.Fatal on error.
SetSampleRate ==
    /\ StartStep("SetSampleRate", TRUE, TRUE)
    /\ UNCHANGED <<fc, producer>>

\* rcvr.SetTunerGainMode(...), log.Fatal on error.
SetTunerGainMode ==
    /\ StartStep("SetTunerGainMode", TRUE, TRUE)
    /\ UNCHANGED <<fc, producer>>

\* rcvr.ResetBuffer(); its result is not looked at.
ResetBuffer ==
    /\ StartStep("ResetBuffer", TRUE, FALSE)
    /\ UNCHANGED <<fc, producer>>

\* The top of Run: signal.Notify, time.After, io.Pipe, go rcvr.ReadAsync.
RunSetup ==
    /\ StartStep("RunSetup", TRUE, FALSE)
    /\ producer' = "running"
    /\ UNCHANGED fc

Startup ==
    \/ HandleFlags \/ NewParser \/ Open \/ Visit \/ SetCenterFreq
    \/ SetSampleRate \/ SetTunerGainMode \/ ResetBuffer \/ RunSetup

\* ---- the acquisition loop (main goroutine) ------------------------------
\* Variant of Select: the poll has no "case <-tLimit".
SelectWithoutTimeLimit ==
    /\ Running /\ pc = "select"
    /\ IF sigint
       THEN /\ sigint' = FALSE
            /\ returnedBy' = "sigint"
            /\ pc' = "deferIn"
            /\ UNCHANGED block
       ELSE /\ pc' = "read"
            /\ block' = <<>>
            /\ UNCHANGED <<sigint, returnedBy>>
    /\ UNCHANGED <<cfgVars, meterID, tLimit, pipeVars, prodVars, blkVars, sampleLen,
                   cancelReq, exitVars, blockStart, ops>>

\* select { case <-sigint: return; case <-tLimit: return; default: ... }
\* A ready case is always preferred to default; among ready cases the
\* choice is arbitrary.
Select ==
    /\ Running /\ pc = "select"
    /\ IF sigint \/ tLimit = "fired"
       THEN /\ \/ /\ sigint
                  /\ sigint' = FALSE
                  /\ returnedBy' = "sigint"
                  /\ UNCHANGED tLimit
               \/ /\ tLimit = "fired"
                  /\ tLimit' = "drained"
                  /\ returnedBy' = "tLimit"
                  /\ UNCHANGED sigint
            /\ pc' = "deferIn"
            /\ UNCHANGED block
       ELSE /\ pc' = "read"
            /\ block' = <<>>
            /\ UNCHANGED <<sigint, tLimit, returnedBy>>
    /\ UNCHANGED <<cfgVars, meterID, pipeVars, prodVars, blkVars, sampleLen,
                   cancelReq, exitVars, blockStart, ops>>

\* Variant of ReadFull: a single in.Read(block), which returns what one
\* Write offers even when that is less than the block.
ReadOnce ==
    /\ Running /\ pc = "read"
    /\ IF inClosed \/ outClosed
       THEN /\ Fatal("read")
            /\ UNCHANGED <<block, wbuf>>
       ELSE /\ wbuf # <<>>
            /\ LET n == Min(BlockSize2 - Len(block), Len(wbuf))
               IN  /\ block' = block \o FirstN(wbuf, n)
                   /\ wbuf' = DropN(wbuf, n)
                   /\ pc' = "decode"
            /\ UNCHANGED exitVars
    /\ UNCHANGED <<cfgVars, meterID, sigVars, cb, inClosed, outClosed, prodVars,
                   blkVars, sampleLen, cancelReq, returnedBy, blockStart, ops>>

\* io.ReadFull(in, block): one in.Read per step.  A Read takes what the
\* pending Write offers, at most what is still missing; it fails once
\* either end of the pipe is closed; otherwise it waits.
ReadFull ==
    /\ Running /\ pc = "read"
    /\ IF inClosed \/ outClosed
       THEN /\ Fatal("read")
            /\ UNCHANGED <<block, wbuf>>
       ELSE /\ wbuf # <<>>
            /\ LET n == Min(BlockSize2 - Len(block), Len(wbuf))
               IN  /\ block' = block \o FirstN(wbuf, n)
                   /\ wbuf' = DropN(wbuf, n)
                   /\ pc' = IF Len(block) + n = BlockSize2 THEN "decode" ELSE "read"
            /\ UNCHANGED exitVars
    /\ UNCHANGED <<cfgVars, meterID, sigVars, cb, inClosed, outClosed, prodVars,
                   blkVars, sampleLen, cancelReq, returnedBy, blockStart, ops>>

\* pktFound := false; indices := Decode(block); range rcvr.p.Parse(indices)
Decode ==
    /\ Running /\ pc = "decode"
    /\ \E ps \in Parsed(fc) : pkts' = ps /\ iterPkts' = ps
    /\ pktFound' = FALSE
    /\ iterMeterID' = meterID
    /\ blkLog' = <<>>
    /\ blkAppends' = 0
    /\ blockStart' = (blockStart + BlockSize2) % ByteMod
    /\ pc' = "range"
    /\ UNCHANGED <<cfgVars, meterID, sigVars, pipeVars, prodVars, block, sampleLen,
                   cancelReq, exitVars, returnedBy, ops>>

\* Variant of RangePkt: a packet the chain rejects ends the range loop
\* (break where the code has continue).
RangePktBreakOnMismatch ==
    /\ Running /\ pc = "range" /\ pkts # <<>>
    /\ LET pkt == Head(pkts)
       IN  IF ~Match(pkt)
           THEN /\ pkts' = <<>>
                /\ UNCHANGED <<pc, meterID, pktFound, blkLog, exitVars>>
           ELSE \/ /\ Fatal("encode")
                   /\ UNCHANGED <<meterID, pkts, pktFound, blkLog>>
                \/ /\ blkLog' = Append(blkLog, [id |-> pkt.id, offset |-> sampleLen])
                   /\ pktFound' = TRUE
                   /\ IF single
                      THEN IF meterID = {}
                           THEN /\ pkts' = <<>>
                                /\ UNCHANGED meterID
                           ELSE /\ meterID' = meterID \ {pkt.id}
                                /\ pkts' = Tail(pkts)
                      ELSE /\ pkts' = Tail(pkts)
                           /\ UNCHANGED meterID
                   /\ UNCHANGED <<pc, exitVars>>
    /\ UNCHANGED <<cfgVars, sigVars, pipeVars, prodVars, block, iterMeterID, iterPkts,
                   blkAppends, sampleLen, cancelReq, returnedBy, blockStart, ops>>

\* Variant of RangePkt: the raw samples are appended inside the range
\* loop, once per logged packet.
RangePktArchiveEach ==
    /\ Running /\ pc = "range" /\ pkts # <<>>
    /\ LET pkt == Head(pkts)
       IN  IF ~Match(pkt)
           THEN /\ pkts' = Tail(pkts)
                /\ UNCHANGED <<pc, meterID, pktFound, blkLog, exitVars, sampleLen, blkAppends>>
           ELSE \/ /\ Fatal("encode")
                   /\ UNCHANGED <<meterID, pkts, pktFound, blkLog, sampleLen, blkAppends>>
                \/ /\ blkLog' = Append(blkLog, [id |-> pkt.id, offset |-> sampleLen])
                   /\ pktFound' = TRUE
                   /\ sampleLen' = IF sampleOn THEN (sampleLen + 1) % ArchMod ELSE sampleLen
                   /\ blkAppends' = IF sampleOn THEN blkAppends + 1 ELSE blkAppends
                   /\ IF single
                      THEN IF meterID = {}
                           THEN /\ pkts' = <<>>
                                /\ UNCHANGED meterID
                           ELSE /\ meterID' = meterID \ {pkt.id}
                                /\ pkts' = Tail(pkts)
                      ELSE /\ pkts' = Tail(pkts)
                           /\ UNCHANGED meterID
                   /\ UNCHANGED <<pc, exitVars>>
    /\ UNCHANGED <<cfgVars, sigVars, pipeVars, prodVars, block, iterMeterID, iterPkts,
                   cancelReq, returnedBy, blockStart, ops>>

\* Variant of RangePkt: a hit in single mode empties meterID.UintMap
\* instead of deleting the one id.
RangePktClearAll ==
    /\ Running /\ pc = "range" /\ pkts # <<>>
    /\ LET pkt == Head(pkts)
       IN  IF ~Match(pkt)
           THEN /\ pkts' = Tail(pkts)
                /\ UNCHANGED <<pc, meterID, pktFound, blkLog, exitVars>>
           ELSE \/ /\ Fatal("encode")
                   /\ UNCHANGED <<meterID, pkts, pktFound, blkLog>>
                \/ /\ blkLog' = Append(blkLog, [id |-> pkt.id, offset |-> sampleLen])
                   /\ pktFound' = TRUE
                   /\ IF single
                      THEN IF meterID = {}
                           THEN /\ pkts' = <<>>
                                /\ UNCHANGED meterID
                           ELSE /\ meterID' = {}
                                /\ pkts' = Tail(pkts)
                      ELSE /\ pkts' = Tail(pkts)
                           /\ UNCHANGED meterID
                   /\ UNCHANGED <<pc, exitVars>>
    /\ UNCHANGED <<cfgVars, sigVars, pipeVars, prodVars, block, iterMeterID, iterPkts,
                   blkAppends, sampleLen, cancelReq, returnedBy, blockStart, ops>>

\* Variant of RangePkt: single mode with an empty set goes on to the next
\* packet (no break).
RangePktNoBreak ==
    /\ Running /\ pc = "range" /\ pkts # <<>>
    /\ LET pkt == Head(pkts)
       IN  IF ~Match(pkt)
           THEN /\ pkts' = Tail(pkts)
                /\ UNCHANGED <<pc, meterID, pktFound, blkLog, exitVars>>
           ELSE \/ /\ Fatal("encode")
                   /\ UNCHANGED <<meterID, pkts, pktFound, blkLog>>
                \/ /\ blkLog' = Append(blkLog, [id |-> pkt.id, offset |-> sampleLen])
                   /\ pktFound' = TRUE
                   /\ IF single
                      THEN IF meterID = {}
                           THEN /\ pkts' = Tail(pkts)
                                /\ UNCHANGED meterID
                           ELSE /\ meterID' = meterID \ {pkt.id}
                                /\ pkts' = Tail(pkts)
                      ELSE /\ pkts' = Tail(pkts)
                           /\ UNCHANGED meterID
                   /\ UNCHANGED <<pc, exitVars>>
    /\ UNCHANGED <<cfgVars, sigVars, pipeVars, prodVars, block, iterMeterID, iterPkts,
                   blkAppends, sampleLen, cancelReq, returnedBy, blockStart, ops>>

\* One iteration of "for _, pkt := range rcvr.p.Parse(indices)".
RangePkt ==
    /\ Running /\ pc = "range" /\ pkts # <<>>
    /\ LET pkt == Head(pkts)
       IN  IF ~Match(pkt)
           THEN /\ pkts' = Tail(pkts)
                /\ UNCHANGED <<pc, meterID, pktFound, blkLog, exitVars>>
           ELSE \/ /\ Fatal("encode")
                   /\ UNCHANGED <<meterID, pkts, pktFound, blkLog>>
                \/ /\ blkLog' = Append(blkLog, [id |-> pkt.id, offset |-> sampleLen])
                   /\ pktFound' = TRUE
                   /\ IF single
                      THEN IF meterID = {}
                           THEN /\ pkts' = <<>>
                                /\ UNCHANGED meterID
                           ELSE /\ meterID' = meterID \ {pkt.id}
                                /\ pkts' = Tail(pkts)
                      ELSE /\ pkts' = Tail(pkts)
                           /\ UNCHANGED meterID
                   /\ UNCHANGED <<pc, exitVars>>
    /\ UNCHANGED <<cfgVars, sigVars, pipeVars, prodVars, block, iterMeterID, iterPkts,
                   blkAppends, sampleLen, cancelReq, returnedBy, blockStart, ops>>

\* Variant of AfterRange: single mode returns after any block with a hit,
\* without testing len(meterID.UintMap).
AfterRangeStopOnHit ==
    /\ Running /\ pc = "range" /\ pkts = <<>>
    /\ IF pktFound
       THEN \/ /\ sampleOn
               /\ Fatal("write")
               /\ UNCHANGED <<sampleLen, blkAppends, returnedBy>>
            \/ /\ IF sampleOn
                  THEN /\ sampleLen' = (sampleLen + 1) % ArchMod
                       /\ blkAppends' = blkAppends + 1
                  ELSE UNCHANGED <<sampleLen, blkAppends>>
               /\ IF single
                  THEN pc' = "deferIn" /\ returnedBy' = "single"
                  ELSE pc' = "select" /\ UNCHANGED returnedBy
               /\ UNCHANGED exitVars
       ELSE /\ pc' = "select"
            /\ UNCHANGED <<sampleLen, blkAppends, returnedBy, exitVars>>
    /\ iterPkts' = IF pc' = "exited" THEN iterPkts ELSE <<>>
    /\ UNCHANGED <<cfgVars, meterID, sigVars, pipeVars, prodVars, block, pkts,
                   pktFound, iterMeterID, blkLog, cancelReq, blockStart, ops>>

\* Variant of AfterRange: the raw samples of every block are archived,
\* whether or not a packet was found.
AfterRangeArchiveAlways ==
    /\ Running /\ pc = "range" /\ pkts = <<>>
    /\ \/ /\ sampleOn
          /\ Fatal("write")
          /\ UNCHANGED <<sampleLen, blkAppends, returnedBy>>
       \/ /\ IF sampleOn
             THEN /\ sampleLen' = (sampleLen + 1) % ArchMod
                  /\ blkAppends' = blkAppends + 1
             ELSE UNCHANGED <<sampleLen, blkAppends>>
          /\ IF pktFound /\ single /\ meterID = {}
             THEN pc' = "deferIn" /\ returnedBy' = "single"
             ELSE pc' = "select" /\ UNCHANGED returnedBy
          /\ UNCHANGED exitVars
    /\ iterPkts' = IF pc' = "exited" THEN iterPkts ELSE <<>>
    /\ UNCHANGED <<cfgVars, meterID, sigVars, pipeVars, prodVars, block, pkts,
                   pktFound, iterMeterID, blkLog, cancelReq, blockStart, ops>>

\* if pktFound { archive the raw samples; if *single && empty { return } }
AfterRange ==
    /\ Running /\ pc = "range" /\ pkts = <<>>
    /\ IF pktFound
       THEN \/ /\ sampleOn
               /\ Fatal("write")
               /\ UNCHANGED <<sampleLen, blkAppends, returnedBy>>
            \/ /\ IF sampleOn
                  THEN /\ sampleLen' = (sampleLen + 1) % ArchMod
                       /\ blkAppends' = blkAppends + 1
                  ELSE UNCHANGED <<sampleLen, blkAppends>>
               /\ IF single /\ meterID = {}
                  THEN pc' = "deferIn" /\ returnedBy' = "single"
                  ELSE pc' = "select" /\ UNCHANGED returnedBy
               /\ UNCHANGED exitVars
       ELSE /\ pc' = "select"
            /\ UNCHANGED <<sampleLen, blkAppends, returnedBy, exitVars>>
    /\ iterPkts' = IF pc' = "exited" THEN iterPkts ELSE <<>>
    /\ UNCHANGED <<cfgVars, meterID, sigVars, pipeVars, prodVars, block, pkts,
                   pktFound, iterMeterID, blkLog, cancelReq, blockStart, ops>>

\* Variant of RunDeferIn: the deferred function does not close the read end.
RunDeferInNoClose ==
    /\ Running /\ pc = "deferIn"
    /\ pc' = "deferOut"
    /\ UNCHANGED <<cfgVars, meterID, sigVars, pipeVars, prodVars, block,
                   blkVars, sampleLen, cancelReq, exitVars, returnedBy, blockStart, ops>>

\* ---- Run's deferred function: in.Close(); out.Close() --------------------
RunDeferIn ==
    /\ Running /\ pc = "deferIn"
    /\ inClosed' = TRUE
    /\ pc' = "deferOut"
    /\ UNCHANGED <<cfgVars, meterID, sigVars, wbuf, cb, outClosed, prodVars, block,
                   blkVars, sampleLen, cancelReq, exitVars, returnedBy, blockStart, ops>>

RunDeferOut ==
    /\ Running /\ pc = "deferOut"
    /\ outClosed' = TRUE
    /\ pc' = MainDefer[1]
    /\ UNCHANGED <<cfgVars, meterID, sigVars, wbuf, cb, inClosed, prodVars, block,
                   blkVars, sampleLen, cancelReq, exitVars, returnedBy, blockStart, ops>>

\* ---- main's deferred function -------------------------------------------
shutVars == <<cfgVars, meterID, sigVars, pipeVars, nextByte, block, blkVars,
              sampleLen, returnedBy, blockStart>>

CloseLog ==
    /\ Running /\ pc = "closeLog"
    /\ ops' = Append(ops, "logFile.Close")
    /\ pc' = DeferNext("closeLog")
    /\ UNCHANGED <<shutVars, producer, cancelReq, exitVars>>

CloseSample ==
    /\ Running /\ pc = "closeSample"
    /\ ops' = Append(ops, "sampleFile.Close")
    /\ pc' = DeferNext("closeSample")
    /\ UNCHANGED <<shutVars, producer, cancelReq, exitVars>>

\* err := rcvr.CancelAsync(): the request ...
CancelAsync ==
    /\ Running /\ pc = "cancel"
    /\ cancelReq' = TRUE
    /\ ops' = Append(ops, "CancelAsync")
    /\ pc' = "cancelWait"
    /\ UNCHANGED <<shutVars, producer, exitVars>>

\* ... and its return: nil once the producer has stopped, or an error.
CancelAsyncReturn ==
    /\ Running /\ pc = "cancelWait"
    /\ \/ /\ producer # "running"
          /\ ops' = Append(ops, "CancelAsync returned")
          /\ pc' = DeferNext("cancel")
          /\ UNCHANGED exitVars
       \/ /\ Fatal("cancel")
          /\ UNCHANGED ops
    /\ UNCHANGED <<shutVars, producer, cancelReq>>

CloseDevice ==
    /\ Running /\ pc = "closeDev"
    /\ ops' = Append(ops, "Close")
    /\ pc' = DeferNext("closeDev")
    /\ UNCHANGED <<shutVars, producer, cancelReq, exitVars>>

Exit0 ==
    /\ Running /\ pc = "exit0"
    /\ pc' = "exited"
    /\ exitCode' = 0
    /\ UNCHANGED <<shutVars, producer, cancelReq, fatalAt, ops>>

\* ---- the ReadAsync goroutine --------------------------------------------
\* The driver invokes rtlsdrCb(buf): out.Write(buf) hands buf to the pipe
\* and waits; on a closed pipe it returns at once and buf is discarded
\* (its bytes never enter the pipe and are not numbered).
CbWrite ==
    /\ Running /\ producer = "running" /\ cb = "idle"
    /\ \E n \in 1..MaxChunk :
          IF inClosed \/ outClosed
          THEN UNCHANGED <<wbuf, cb, nextByte>>
          ELSE /\ wbuf' = Chunk(nextByte, n)
               /\ cb' = "writing"
               /\ nextByte' = (nextByte + n) % ByteMod
    /\ UNCHANGED <<pc, cfgVars, meterID, sigVars, inClosed, outClosed, producer, block,
                   blkVars, sampleLen, cancelReq, exitVars, returnedBy, blockStart, ops>>

\* out.Write returns: every byte was read, or the pipe was closed.
CbReturn ==
    /\ Running /\ cb = "writing"
    /\ wbuf = <<>> \/ inClosed \/ outClosed
    /\ cb' = "idle"
    /\ wbuf' = <<>>
    /\ UNCHANGED <<pc, cfgVars, meterID, sigVars, inClosed, outClosed, prodVars, block,
                   blkVars, sampleLen, cancelReq, exitVars, returnedBy, blockStart, ops>>

\* ReadAsync returns after a cancellation request, between two callbacks.
ProducerStop ==
    /\ Running /\ producer = "running" /\ cb = "idle" /\ cancelReq
    /\ producer' = "stopped"
    /\ UNCHANGED <<pc, cfgVars, meterID, sigVars, pipeVars, nextByte, block, blkVars,
                   sampleLen, cancelReq, exitVars, returnedBy, blockStart, ops>>

\* ReadAsync returns on its own (device lost); nothing in Run observes it.
ProducerLost ==
    /\ Running /\ producer = "running" /\ cb = "idle" /\ ~cancelReq
    /\ producer' = "lost"
    /\ UNCHANGED <<pc, cfgVars, meterID, sigVars, pipeVars, nextByte, block, blkVars,
                   sampleLen, cancelReq, exitVars, returnedBy, blockStart, ops>>

\* ---- environment ---------------------------------------------------------
\* os.Interrupt is delivered: signal.Notify puts it in sigint if there is room.
Signal ==
    /\ Running /\ pc \notin StartupPcs /\ ~sigint
    /\ sigint' = TRUE
    /\ UNCHANGED <<pc, cfgVars, meterID, tLimit, pipeVars, prodVars, block, blkVars,
                   sampleLen, cancelReq, exitVars, returnedBy, blockStart, ops>>

\* time.After(*timeLimit) fires.
TimeLimit ==
    /\ Running /\ pc \notin StartupPcs /\ tLimit = "armed"
    /\ tLimit' = "fired"
    /\ UNCHANGED <<pc, cfgVars, meterID, sigint, pipeVars, prodVars, block, blkVars,
                   sampleLen, cancelReq, exitVars, returnedBy, blockStart, ops>>

Consumer ==
    \/ Select \/ ReadFull \/ Decode \/ RangePkt \/ AfterRange
    \/ RunDeferIn \/ RunDeferOut
    \/ CloseLog \/ CloseSample \/ CancelAsync \/ CancelAsyncReturn
    \/ CloseDevice \/ Exit0

Callback == CbWrite \/ CbReturn \/ ProducerStop

\* Everything that can happen once the loop has been entered.
RunNext == Consumer \/ Callback \/ ProducerLost \/ Signal \/ TimeLimit

Next == Startup \/ RunNext

\* The state at loop entry in single mode with an empty identifier set,
\* the case the test at line 164 provides for (HandleFlags is taken not
\* to have rejected it).
LoopInit ==
    /\ single = TRUE
    /\ sampleOn \in BOOLEAN
    /\ meterID = {}
    /\ ids0 = {}
    /\ flagSet \in SUBSET (FilterFlags \ {"filterid"})
    /\ fc = VisitFlags(flagSet)
    /\ boot = StartupOrder
    /\ iterPkts = <<>>
    /\ tLimit \in {"none", "armed"}
    /\ pc = "select"
    /\ sigint = FALSE
    /\ wbuf = <<>>
    /\ cb = "idle"
    /\ producer = "running"
    /\ inClosed = FALSE
    /\ outClosed = FALSE
    /\ block = <<>>
    /\ pkts = <<>>
    /\ pktFound = FALSE
    /\ sampleLen = 0
    /\ cancelReq = FALSE
    /\ exitCode = -1
    /\ fatalAt = ""
    /\ returnedBy = ""
    /\ nextByte = 0
    /\ blockStart = 0
    /\ iterMeterID = {}
    /\ blkLog = <<>>
    /\ blkAppends = 0
    /\ ops = <<>>

LoopSpec == LoopInit /\ [][RunNext]_vars

Spec == Init /\ [][Next]_vars

\* The main goroutine and the driver's callback thread keep running.
FairSpec == Spec /\ WF_vars(Startup \/ Consumer) /\ WF_vars(Callback)

TypeOK ==
    /\ pc \in StartupPcs \cup
             {"select", "read", "decode", "range", "deferIn", "deferOut",
               "closeLog", "closeSample", "cancel", "cancelWait", "closeDev",
               "exit0", "exited"}
    /\ meterID \subseteq IDs
    /\ Len(block) <= BlockSize2
    /\ Len(wbuf) <= MaxChunk
    /\ Len(pkts) <= MaxPkts
    /\ exitCode \in {-1, 0, 1}


\* ---- properties ---------------------------------------------------------
LoopPcs == {"select", "read", "decode", "range"}

ShutdownOps == <<"logFile.Close", "sampleFile.Close", "CancelAsync",
                 "CancelAsync returned", "Close">>

\* Every occurrence of b in ops has an occurrence of a before it.
Before(a, b) ==
    \A j \in DOMAIN ops : ops[j] = b => \E i \in 1..(j - 1) : ops[i] = a

\* C1: on a normal stop the log sink and the archive are closed before
\* producer cancellation is requested, cancellation returns before the
\* device is closed, and a run that ends with status 0 has performed all
\* five operations in that order.
C1_ShutdownOrder ==
    /\ Before("logFile.Close", "CancelAsync")
    /\ Before("sampleFile.Close", "CancelAsync")
    /\ Before("CancelAsync", "CancelAsync returned")
    /\ Before("CancelAsync returned", "Close")
    /\ exitCode = 0 => ops = ShutdownOps

\* A stop signal ended the loop while the producer was running, and the
\* shutdown ran through to the device close.
C1_Witness ==
    /\ returnedBy = "sigint"
    /\ producer = "stopped"
    /\ exitCode = 0
    /\ ops[Len(ops)] = "Close"

\* C2: whichever way a started run ends (return from the loop, or a fatal
\* block read, log encode or archive write), the log sink and the archive
\* have been closed, the producer cancelled and the device closed.
C2_ShutdownOnEveryPath ==
    (pc = "exited" /\ fatalAt \in {"", "read", "encode", "write"})
        => ops = ShutdownOps

\* C3: the callback is never held inside out.Write with bytes the
\* acquisition loop has yet to pull while the loop is doing something else.
C3_PushNeverWaits ==
    ~(cb = "writing" /\ wbuf # <<>> /\ ~inClosed /\ ~outClosed /\ pc # "read")

\* Bytes the driver has delivered that are not part of a decoded block.
Undelivered == (nextByte - blockStart + ByteMod) % ByteMod

\* C4: a completed block is exactly the next BlockSize2 bytes of the stream
\* in push order, a partly filled block is a prefix of them, and every
\* delivered byte is either in the block, still offered by the pending
\* push, or part of an earlier block: none lost, duplicated or invented.
C4_BlocksInStreamOrder ==
    /\ pc = "decode" => block = StreamBlock(blockStart)
    /\ pc = "read" => /\ Len(block) < BlockSize2
                      /\ block = Chunk(blockStart, Len(block))
                      /\ Undelivered = Len(block) + Len(wbuf)
                      /\ wbuf = Chunk(blockStart + Len(block), Len(wbuf))
    /\ pc = "decode" => Undelivered = BlockSize2 + Len(wbuf)
    /\ pc \in {"select", "range"} => /\ Undelivered = Len(wbuf)
                                      /\ wbuf = Chunk(blockStart, Len(wbuf))

\* A block other than the first is complete and ends in the middle of a
\* pushed chunk.
C4_Witness ==
    /\ pc = "decode"
    /\ blockStart # 0
    /\ Len(wbuf) = 1
    /\ block = StreamBlock(blockStart)

\* C5: when the producer has stopped and the loop is inside io.ReadFull
\* with nothing to read, the read eventually returns.
C5_StoppedProducerUnblocksPull ==
    (pc = "read" /\ producer # "running" /\ wbuf = <<>>) ~> (pc # "read")

\* C6: leaving the poll, the loop returns if a stop signal or the expired
\* time limit is pending and starts a pull only if neither is; once the
\* loop has returned nothing of the loop runs again.
C6_PollBeforePull ==
    [][/\ (pc = "select" /\ pc' # "select") =>
             IF sigint \/ tLimit = "fired"
             THEN pc' = "deferIn" /\ blockStart' = blockStart /\ blkLog' = blkLog
             ELSE pc' = "read"
       /\ pc' = "read" /\ pc # "read" => pc = "select"
       /\ pc \notin LoopPcs \cup StartupPcs => pc' \notin LoopPcs]_vars

\* The time limit was found expired at a poll after blocks had been
\* processed, and the loop returned.
C6_Witness ==
    /\ pc = "deferIn"
    /\ returnedBy = "tLimit"
    /\ blockStart # 0

\* C7: once a stop signal is pending or the time limit has expired, the
\* device is eventually closed.
C7_StopLeadsToDeviceClose ==
    (sigint \/ tLimit = "fired") ~> (\E i \in DOMAIN ops : ops[i] = "Close")

\* C8: in single mode a new iteration never starts with an empty pending
\* set, and the loop returns for completion only in the iteration that
\* emptied the set, with that block's records logged and its raw samples
\* appended when archiving is on.
C8_SingleStopsWhenEmptied ==
    single =>
        /\ pc \in {"select", "read", "decode"} => meterID # {}
        /\ returnedBy = "single" =>
              /\ meterID = {}
              /\ iterMeterID # {}
              /\ blkLog # <<>>
              /\ blkAppends = IF sampleOn THEN 1 ELSE 0

\* The run completed in a block after an earlier block with a hit had not
\* ended it.
C8_Witness ==
    /\ single
    /\ returnedBy = "single"
    /\ sampleOn
    /\ sampleLen = 2

\* C9: in single mode a step that writes a log record does so for a packet
\* whose id is in the pending set, and removes that id from the set.
C9_LoggedOnlyIfPending ==
    [][(single /\ Len(blkLog') > Len(blkLog)) =>
          /\ Head(pkts).id \in meterID
          /\ meterID' = meterID \ {Head(pkts).id}]_vars

\* C10: while the packets of a block are visited nothing is appended; once
\* the block is processed the archive was appended to once if a record was
\* logged and archiving is on, and not at all otherwise.
C10_ArchiveOncePerBlock ==
    /\ pc = "range" => blkAppends = 0
    /\ (pc \in LoopPcs \ {"range"} \/ returnedBy # "") =>
          blkAppends = IF blkLog # <<>> /\ sampleOn THEN 1 ELSE 0

\* A block with two logged records was archived once.
C10_Witness ==
    /\ pc = "select"
    /\ sampleOn
    /\ Len(blkLog) = 2
    /\ blkAppends = 1


\* The packets of the current block the range loop has visited.
Visited == FirstN(iterPkts, Len(iterPkts) - Len(pkts))

IdsOf(recs) == [i \in DOMAIN recs |-> recs[i].id]

\* C11: outside single mode the records logged for a block are, in decode
\* order, exactly the packets visited so far that the filter chain
\* accepts; while no record has been logged for a block nothing has been
\* appended to the archive for it.
C11_OneRecordPerAcceptedPacket ==
    ~single =>
        /\ pc = "range" => IdsOf(blkLog) = IdsOf(SelectSeq(Visited, Match))
        /\ blkLog = <<>> => blkAppends = 0

\* Identifier filter {42}, a block with packets 42 and 43: one record, 42.
C11_Witness ==
    /\ ~single
    /\ meterID = {42}
    /\ pc = "range" /\ pkts = <<>>
    /\ IdsOf(iterPkts) = <<42, 43>>
    /\ IdsOf(blkLog) = <<42>>

\* C12: with archiving on, every record logged for the current block
\* carries as Offset the archive length from before that block's append.
C12_OffsetIsLengthBeforeAppend ==
    sampleOn =>
        \A i \in DOMAIN blkLog :
            blkLog[i].offset = (sampleLen - blkAppends + ArchMod) % ArchMod

\* Two records of a block that is not the first one archived share the
\* offset at which the block's samples were then appended.
C12_Witness ==
    /\ sampleOn
    /\ Len(blkLog) = 2
    /\ blkAppends = 1
    /\ blkLog[1].offset = 1 /\ blkLog[2].offset = 1
    /\ sampleLen = 2

\* C17: a step that fails in Encode or in the archive write ends the
\* process, and no step that ends in a state after such a failure logs a
\* record, appends to the archive or reads from the pipe.
C17_SinkFailureIsFatal ==
    [][fatalAt' \in {"encode", "write"} =>
          /\ pc' = "exited"
          /\ blkLog' = blkLog
          /\ sampleLen' = sampleLen
          /\ block' = block
          /\ blockStart' = blockStart]_vars

\* The archive write failed for a block whose two records were logged.
C17_Witness ==
    /\ pc = "exited"
    /\ fatalAt = "write"
    /\ Len(blkLog) = 2
    /\ blkAppends = 0

BootBefore(a, b) ==
    \A j \in DOMAIN boot : boot[j] = b => \E i \in 1..(j - 1) : boot[i] = a

\* Consecutive steps of order occur in boot in that order.
BootFollows(order) ==
    \A k \in 1..(Len(order) - 1) : BootBefore(order[k], order[k + 1])

DeviceOpened == \E i \in DOMAIN boot : boot[i] = "Open"
DeviceClosed == \E i \in DOMAIN ops : ops[i] = "Close"

C14_StartupOrderAsClaimed ==
    BootFollows(<<"NewParser", "Open", "SetCenterFreq", "SetSampleRate",
                  "SetTunerGainMode", "Visit", "ResetBuffer", "RunSetup">>)

\* C14 (amended): parser, open, filter chain, device configuration (center
\* frequency, sample rate, gain mode), buffer reset, producer start, in
\* that order; a failed parser construction ends the run with the device
\* unopened; the producer runs only after configuration and buffer reset.
C14_StartupOrder ==
    /\ BootFollows(<<"NewParser", "Open", "Visit", "SetCenterFreq", "SetSampleRate",
                     "SetTunerGainMode", "ResetBuffer", "RunSetup">>)
    /\ fatalAt = "NewParser" => ~DeviceOpened
    /\ producer # "off" =>
          {"NewParser", "Open", "Visit", "SetCenterFreq", "SetSampleRate",
           "SetTunerGainMode", "ResetBuffer", "RunSetup"} \subseteq Range(boot)

\* Startup has run through and the producer is pushing.
C14_Witness ==
    /\ pc = "read"
    /\ producer = "running"
    /\ cb = "writing"
    /\ boot[Len(boot)] = "RunSetup"

\* C15: a run that ends after the device was opened has closed it.
C15_AbortClosesDevice ==
    (pc = "exited" /\ DeviceOpened) => DeviceClosed

Rank(order, x) == CHOOSE k \in DOMAIN order : order[k] = x

\* The chain holds the filters of the given flags, each once, in order.
ChainIs(order) ==
    /\ Range(fc) = {FilterOf(f) : f \in flagSet}
    /\ \A i, j \in DOMAIN fc : i < j => Rank(order, fc[i]) < Rank(order, fc[j])

\* C16 as claimed: once built, the chain has the unique filter first, then
\* the identifier filter, then the type filter.
C16_UniqueFirst ==
    (\E i \in DOMAIN boot : boot[i] = "Visit") =>
        ChainIs(<<"unique", "meterID", "meterType">>)

\* C16 (amended): once built, the chain has the identifier filter first,
\* then the type filter, then the unique filter (the lexicographical
\* order of the flag names), whatever the rest of the configuration.
C16_FlagNameOrder ==
    (\E i \in DOMAIN boot : boot[i] = "Visit") =>
        ChainIs(<<"meterID", "meterType", "unique">>)

\* All three filter flags were given and the chain is in use by the loop.
C16_Witness ==
    /\ flagSet = FilterFlags
    /\ fc = <<"meterID", "meterType", "unique">>
    /\ pc = "range" /\ pkts # <<>>

\* C19: from the first statement of main's deferred function on, and so
\* whenever cancellation has been requested, both ends of the pipe are
\* closed; a callback that finds the pipe closed does not enter a wait.
C19_PipeClosedBeforeCancel ==
    /\ []((cancelReq \/ pc \in Range(MainDefer) \/ pc = "cancelWait")
             => inClosed /\ outClosed)
    /\ [][(inClosed \/ outClosed) /\ cb = "idle" => cb' = "idle"]_vars

\* Cancellation is pending while the callback that was inside out.Write
\* when the loop returned has been released by the close but has not yet
\* returned.
C19_Witness ==
    /\ pc = "cancelWait"
    /\ producer = "running"
    /\ cb = "writing" /\ wbuf # <<>>
    /\ inClosed /\ outClosed

\* C20: in single mode with an empty identifier set, a block logs at most
\* one record, the first packet the chain accepts, and skips the rest; a
\* block without an accepted packet logs nothing and the loop goes on;
\* the loop returns after the first block with a record, with at most
\* one archive append for it.
C20_EmptySetStopsOnFirstHit ==
    (single /\ ids0 = {}) =>
        /\ Len(blkLog) <= 1
        /\ (pc = "range" /\ blkLog # <<>>) =>
              /\ pkts = <<>>
              /\ blkLog[1].id = SelectSeq(iterPkts, Match)[1].id
        /\ (pc = "range" /\ pkts = <<>> /\ blkLog = <<>>) =>
              SelectSeq(iterPkts, Match) = <<>>
        /\ pc \in {"select", "read", "decode"} => blkLog = <<>>
        /\ blkLog # <<>> => pc \notin {"select", "read", "decode"}
        /\ returnedBy = "single" =>
              /\ Len(blkLog) = 1
              /\ blkAppends = IF sampleOn THEN 1 ELSE 0

\* A later block had two acceptable packets; one record was written and
\* the second packet was skipped.
C20_Witness ==
    /\ single /\ ids0 = {}
    /\ pc = "range" /\ pkts = <<>>
    /\ Len(SelectSeq(iterPkts, Match)) = 2
    /\ Len(blkLog) = 1
    /\ blockStart # BlockSize2

====
